---------------------------- MODULE Spec2Model ----------------------------
(***************************************************************************)
(* Model of src/src/app.ts: the project store (State / ProjectState), the  *)
(* two list views (ProjectList) subscribed to it, the rendered items       *)
(* (ProjectItem) and the drag-and-drop handlers.                           *)
(*                                                                         *)
(* JavaScript reference semantics is kept: Project objects live in `heap`  *)
(* (a reference is an index into it), arrays live in `arrays` (keyed by    *)
(* an array identity), and every array holds references, not copies.       *)
(* The for...of loop over the listeners is a sequence of steps, one per    *)
(* listener call, driven by `stack` (one frame per running loop); no       *)
(* event handler starts while a loop is running (single thread).           *)
(***************************************************************************)
EXTENDS Integers, Sequences, FiniteSets, TLC

\* ---- bounds of the model ------------------------------------------------
MaxProjects == 2
MaxRecorders == 1

\* ---- values -------------------------------------------------------------
\* enum ProjectStatus { Active, Finished }
Active == "Active"
Finished == "Finished"
ProjectStatus == {Active, Finished}

\* the strings Math.random().toString() may return (nothing in the code
\* keeps two calls from returning the same one)
RandomStrings == {"0.25", "0.75"}

\* arguments of addProject (validated by the caller)
Titles == {"T"}
Descriptions == {"D"}
PeopleCounts == {3}

\* result of Array.prototype.find when nothing matches; also a null
\* dataTransfer
undefined == 0
null == [types |-> <<>>, text |-> "null", effectAllowed |-> "null"]

textPlain == "text/plain"

\* the two list views built at start-up, named by their `type`
Views == {"active", "finished"}
\* further listeners registered through addListener: each keeps the array
\* it was passed and changes it
Recorders == 1 .. MaxRecorders
\* a listener is named by the view it belongs to or by its recorder number
ViewListener(v) == [kind |-> "list", type |-> v, n |-> 0]
RecorderListener(r) == [kind |-> "recorder", type |-> "none", n |-> r]
Observers == {ViewListener(v) : v \in Views} \cup {RecorderListener(r) : r \in Recorders}

\* identity of the array this.projects; recorder r's received array is r
projectsRef == 0

\* const projectState = ProjectState.getInstance(): the first ProjectState
\* object made, whose fields the store variables below are
projectState == 1

\* drags that do not start on a ProjectItem
ForeignTransfers ==
    { [types |-> <<"Files">>, text |-> "", effectAllowed |-> "uninitialized"],
      [types |-> <<"text/html", textPlain>>, text |-> "nonexistent-id", effectAllowed |-> "uninitialized"] }

VARIABLES
    heap,             \* Project objects, by reference 1..Len(heap)
    arrays,           \* arrays of references: this.projects and the recorders' arrays
    listeners,        \* State.listeners
    assignedProjects, \* ProjectList.assignedProjects of each view (= its rendered items)
    snapshot,         \* the array each recorder holds (an array identity), -1 if none
    droppable,        \* 'droppable' class on each view's <ul>
    dataTransfer,     \* the DataTransfer of the drag in progress, null if none
    stack,            \* running listener loops, innermost last: next index to call
    invoked,          \* how often each observer was called during the latest store call
    order,            \* the observers called during the latest store call, in call order
    received,         \* what each observer was passed last: reference and field values then
    dragged,          \* the project of the item the drag in progress started on, 0 if none
    instance,         \* ProjectState.instance: the ProjectState object made, undefined if none
    lastEvent         \* the latest handler call and its arguments

vars == <<heap, arrays, listeners, assignedProjects, snapshot, droppable,
          dataTransfer, stack, invoked, order, received, dragged, instance,
          lastEvent>>

storeVars == <<heap, arrays, listeners, assignedProjects, snapshot, stack,
               invoked, order, received, instance>>

projects == arrays[projectsRef]

NoEvent ==
    [handler |-> "none", target |-> "none", title |-> "", description |-> "",
     people |-> 0, prjId |-> "", newStatus |-> "none", dataTransfer |-> null,
     defaultPrevented |-> FALSE, threw |-> FALSE, before |-> <<>>,
     returned |-> undefined]

\* ---- pure helpers -------------------------------------------------------
NewProjectSwapped(id, title, description, numOfPeople) ==
    [id |-> id, title |-> description, description |-> title,
     people |-> numOfPeople, status |-> Active]

\* new Project(id, title, description, people, ProjectStatus.Active)
NewProject(id, title, description, numOfPeople) ==
    [id |-> id, title |-> title, description |-> description,
     people |-> numOfPeople, status |-> Active]

findOrLast(arr, h, projectId) ==
    LET hits == {k \in 1 .. Len(arr) : h[arr[k]].id = projectId}
    IN IF hits = {} THEN (IF arr = <<>> THEN undefined ELSE arr[Len(arr)])
       ELSE arr[CHOOSE k \in hits : \A j \in hits : k <= j]

\* this.projects.find(prj => prj.id === projectId): the first match, as a
\* reference, or undefined
find(arr, h, projectId) ==
    LET hits == {k \in 1 .. Len(arr) : h[arr[k]].id = projectId}
    IN IF hits = {} THEN undefined
       ELSE arr[CHOOSE k \in hits : \A j \in hits : k <= j]

moveConditionAnyStatus(project, h, newStatus) ==
    project # undefined

\* project && project.status !== newStatus
moveCondition(project, h, newStatus) ==
    project # undefined /\ h[project].status # newStatus

sliceLive(src, fresh) == src

\* arr.slice(): a new array (identity fresh) with the same elements
slice(src, fresh) == fresh

\* projects.filter(prj => ...) of the list view's listener
RECURSIVE filterStatus(_, _, _)
filterStatus(arr, h, status) ==
    IF arr = <<>> THEN <<>>
    ELSE LET rest == filterStatus(Tail(arr), h, status)
         IN IF h[Head(arr)].status = status THEN <<Head(arr)>> \o rest ELSE rest

relevantProjectsUnfiltered(type, arr, h) ==
    IF type = "active" THEN filterStatus(arr, h, Active)
    ELSE arr

relevantProjects(type, arr, h) ==
    IF type = "active" THEN filterStatus(arr, h, Active)
    ELSE filterStatus(arr, h, Finished)

statusOfTargetSwapped(type) == IF type = "active" THEN Finished ELSE Active

\* this.type === 'active' ? ProjectStatus.Active : ProjectStatus.Finished
statusOfTarget(type) == IF type = "active" THEN Active ELSE Finished

acceptsDragAnyKind(dt) ==
    dt # null /\ \E k \in 1 .. Len(dt.types) : dt.types[k] = textPlain

\* event.dataTransfer && event.dataTransfer.types[0] === 'text/plain'
acceptsDrag(dt) ==
    dt # null /\ Len(dt.types) > 0 /\ dt.types[1] = textPlain

listenerAtReversed(ls, i) == ls[Len(ls) + 1 - i]

\* the element a for...of loop over the listeners visits at its i-th step
listenerAt(ls, i) == ls[i]

setStatusAll(h, project, newStatus) ==
    [r \in 1 .. Len(h) |-> [h[r] EXCEPT !.status = newStatus]]

\* project.status = newStatus
setStatus(h, project, newStatus) == [h EXCEPT ![project].status = newStatus]

sliceElemsDropLast(arr) ==
    IF arr = <<>> THEN arr ELSE SubSeq(arr, 1, Len(arr) - 1)

\* the elements of arr.slice(): those of arr
sliceElems(arr) == arr

unshift(arr, x) == <<x>> \o arr

\* this.projects.push(newProject)
push(arr, x) == Append(arr, x)

classListToggle(classes, v) == [classes EXCEPT ![v] = ~@]

\* listEl.classList.remove('droppable') on the <ul> of view v
classListRemove(classes, v) == [classes EXCEPT ![v] = FALSE]

\* the value of an array of references, field by field
ValueOf(arr, h) ==
    [k \in 1 .. Len(arr) |->
        [ref |-> arr[k], id |-> h[arr[k]].id, title |-> h[arr[k]].title,
         description |-> h[arr[k]].description, people |-> h[arr[k]].people,
         status |-> h[arr[k]].status]]

Reverse(s) == [k \in 1 .. Len(s) |-> s[Len(s) + 1 - k]]

\* what a recorder does to the array it was passed
ArrayOps == {"push", "pop", "reverse"}
ApplyOp(op, arr) ==
    CASE op = "push" -> IF arr = <<>> THEN arr ELSE Append(arr, arr[1])
      [] op = "pop" -> IF arr = <<>> THEN arr ELSE SubSeq(arr, 1, Len(arr) - 1)
      [] OTHER -> Reverse(arr)

\* ---- initial state: after lines 74 and 342-344 have run ------------------
Init ==
    /\ heap = <<>>
    /\ arrays = [a \in {projectsRef} \cup Recorders |-> <<>>]
    /\ listeners = <<ViewListener("active"), ViewListener("finished")>>
    /\ assignedProjects = [v \in Views |-> <<>>]
    /\ snapshot = [r \in Recorders |-> -1]
    /\ droppable = [v \in Views |-> FALSE]
    /\ dataTransfer = null
    /\ stack = <<>>
    /\ invoked = [o \in Observers |-> 0]
    /\ order = <<>>
    /\ received = [o \in Observers |-> <<>>]
    /\ dragged = 0
    /\ instance = projectState
    /\ lastEvent = NoEvent

\* ---- the store -----------------------------------------------------------
getInstanceFresh(inst) == inst + 1

\* the value of ProjectState.getInstance() and of ProjectState.instance after
\* it: the instance there is, or else a new ProjectState
getInstanceResult(inst) == IF inst # undefined THEN inst ELSE projectState

\* ProjectState.getInstance, called from anywhere
getInstance ==
    /\ stack = <<>>
    /\ instance' = getInstanceResult(instance)
    /\ lastEvent' = [NoEvent EXCEPT !.handler = "getInstance", !.returned = instance']
    /\ UNCHANGED <<heap, arrays, listeners, assignedProjects, snapshot, droppable,
                   dataTransfer, stack, invoked, order, received, dragged>>

addListenerReplay(r) ==
    /\ stack = <<>>
    /\ r = Len(listeners) - 1
    /\ listeners' = Append(listeners, RecorderListener(r))
    /\ received' = [received EXCEPT ![RecorderListener(r)] = ValueOf(projects, heap)]
    /\ lastEvent' = [NoEvent EXCEPT !.handler = "addListener"]
    /\ UNCHANGED <<heap, arrays, assignedProjects, snapshot, droppable,
                   dataTransfer, stack, invoked, order, dragged, instance>>

\* State.addListener, called with a function that is not yet registered
\* (recorders are numbered in the order of their registration)
addListener(r) ==
    /\ stack = <<>>
    /\ r = Len(listeners) - 1
    /\ listeners' = Append(listeners, RecorderListener(r))
    /\ lastEvent' = [NoEvent EXCEPT !.handler = "addListener"]
    /\ UNCHANGED <<heap, arrays, assignedProjects, snapshot, droppable,
                   dataTransfer, stack, invoked, order, received, dragged, instance>>

\* entering `for (const listenerFn of this.listeners)`
startLoopSkipFirst == IF Len(listeners) <= 1 THEN <<>> ELSE <<2>>

startLoop == IF Len(listeners) = 0 THEN <<>> ELSE <<1>>

\* ProjectState.addProject
addProject(id, title, description, numOfPeople) ==
    /\ stack = <<>>
    /\ Len(heap) < MaxProjects
    /\ heap' = Append(heap, NewProject(id, title, description, numOfPeople))
    /\ arrays' = [arrays EXCEPT ![projectsRef] = push(@, Len(heap) + 1)]
    /\ stack' = startLoop
    /\ invoked' = [o \in Observers |-> 0]
    /\ order' = <<>>
    /\ lastEvent' = [NoEvent EXCEPT !.handler = "addProject", !.title = title,
                        !.description = description, !.people = numOfPeople,
                        !.before = ValueOf(projects, heap)]
    /\ UNCHANGED <<listeners, assignedProjects, snapshot, droppable,
                   dataTransfer, received, dragged, instance>>

\* ProjectState.moveProject, up to the listener loop of updateListeners
moveProject(projectId, newStatus) ==
    LET project == find(projects, heap, projectId)
    IN /\ invoked' = [o \in Observers |-> 0]
       /\ order' = <<>>
       /\ IF moveCondition(project, heap, newStatus)
          THEN /\ heap' = setStatus(heap, project, newStatus)
               /\ stack' = startLoop
          ELSE UNCHANGED <<heap, stack>>
       /\ UNCHANGED <<arrays, listeners, assignedProjects, snapshot, received, instance>>

\* what a listener may do with the store from inside its callback
NoCall == [op |-> "none", id |-> "", title |-> "", description |-> "", people |-> 0]
ReentrantCalls ==
    {[op |-> "addProject", id |-> id, title |-> t, description |-> d, people |-> n] :
        id \in RandomStrings, t \in Titles, d \in Descriptions, n \in PeopleCounts}
    \cup {[op |-> "moveProject", id |-> id, title |-> "", description |-> "", people |-> 0] :
        id \in RandomStrings}

\* one listenerFn(this.projects.slice()) of the loop of addProject /
\* updateListeners. A list view filters what it is passed; a recorder keeps
\* the array, changes it, and may call addProject, or moveProject towards
\* Finished, before it returns: that call runs its own loop (a new frame)
\* before the loop that called the recorder goes on.
listenerCall(op, call) ==
    /\ stack # <<>>
    /\ LET i == stack[Len(stack)]
           o == listenerAt(listeners, i)
           passed == slice(projectsRef, IF o.kind = "recorder" THEN o.n ELSE -1)
           elems == sliceElems(arrays[projectsRef])
           advanced == IF i < Len(listeners)
                       THEN [stack EXCEPT ![Len(stack)] = i + 1]
                       ELSE SubSeq(stack, 1, Len(stack) - 1)
           project == find(projects, heap, call.id)
       IN /\ invoked' = [invoked EXCEPT ![o] = @ + 1]
          /\ order' = Append(order, o)
          /\ received' = [received EXCEPT ![o] = ValueOf(elems, heap)]
          /\ IF o.kind = "list"
             THEN \* the listener of ProjectList.configure
                  /\ call = NoCall
                  /\ assignedProjects' =
                        [assignedProjects EXCEPT ![o.type] = relevantProjects(o.type, elems, heap)]
                  /\ stack' = advanced
                  /\ UNCHANGED <<heap, arrays, snapshot>>
             ELSE \* a recorder
                  /\ snapshot' = [snapshot EXCEPT ![o.n] = passed]
                  /\ UNCHANGED assignedProjects
                  /\ CASE call.op = "addProject" ->
                            /\ Len(heap) < MaxProjects
                            /\ heap' = Append(heap, NewProject(call.id, call.title,
                                                               call.description, call.people))
                            /\ arrays' = [arrays EXCEPT ![passed] = ApplyOp(op, elems),
                                                        ![projectsRef] = push(@, Len(heap) + 1)]
                            /\ stack' = advanced \o startLoop
                       [] call.op = "moveProject" ->
                            /\ arrays' = [arrays EXCEPT ![passed] = ApplyOp(op, elems)]
                            /\ IF moveCondition(project, heap, Finished)
                               THEN /\ heap' = setStatus(heap, project, Finished)
                                    /\ stack' = advanced \o startLoop
                               ELSE /\ heap' = heap
                                    /\ stack' = advanced
                       [] OTHER ->
                            /\ arrays' = [arrays EXCEPT ![passed] = ApplyOp(op, elems)]
                            /\ heap' = heap
                            /\ stack' = advanced
    /\ UNCHANGED <<listeners, droppable, dataTransfer, dragged, instance, lastEvent>>

\* a listener call whose listener leaves the store alone
callListener(op) == listenerCall(op, NoCall)

\* a listener call whose listener calls the store from inside its callback
callListenerReentrant(op, call) == listenerCall(op, call)

\* ---- drag source: ProjectItem --------------------------------------------
\* ProjectItem.dragStartHandler of the k-th item rendered by view v
dragStartHandler(v, k) ==
    /\ stack = <<>>
    /\ dataTransfer = null
    /\ k \in 1 .. Len(assignedProjects[v])
    /\ dataTransfer' = [types |-> <<textPlain>>,
                        text |-> heap[assignedProjects[v][k]].id,
                        effectAllowed |-> "move"]
    /\ dragged' = assignedProjects[v][k]
    /\ lastEvent' = [NoEvent EXCEPT !.handler = "dragStartHandler", !.target = v,
                        !.dataTransfer = dataTransfer']
    /\ UNCHANGED <<storeVars, droppable>>

\* a drag that starts outside the page (a file, a text selection)
foreignDragStart(dt) ==
    /\ stack = <<>>
    /\ dataTransfer = null
    /\ dataTransfer' = dt
    /\ dragged' = 0
    /\ lastEvent' = [NoEvent EXCEPT !.handler = "foreignDragStart", !.dataTransfer = dt]
    /\ UNCHANGED <<storeVars, droppable>>

dragEndHandlerMoves ==
    /\ stack = <<>>
    /\ dataTransfer # null
    /\ moveProject(dataTransfer.text, Finished)
    /\ dataTransfer' = null
    /\ dragged' = 0
    /\ lastEvent' = [NoEvent EXCEPT !.handler = "dragEndHandler", !.dataTransfer = dataTransfer]
    /\ UNCHANGED droppable

\* ProjectItem.dragEndHandler (empty); the drag in progress is over
dragEndHandler ==
    /\ stack = <<>>
    /\ dataTransfer # null
    /\ dataTransfer' = null
    /\ dragged' = 0
    /\ lastEvent' = [NoEvent EXCEPT !.handler = "dragEndHandler", !.dataTransfer = dataTransfer]
    /\ UNCHANGED <<storeVars, droppable>>

\* ---- drop target: ProjectList --------------------------------------------
\* ProjectList.dragOverHandler
dragOverHandler(v) ==
    /\ stack = <<>>
    /\ IF acceptsDrag(dataTransfer)
       THEN /\ droppable' = [droppable EXCEPT ![v] = TRUE]
            /\ lastEvent' = [NoEvent EXCEPT !.handler = "dragOverHandler", !.target = v,
                                !.dataTransfer = dataTransfer, !.defaultPrevented = TRUE]
       ELSE /\ droppable' = droppable
            /\ lastEvent' = [NoEvent EXCEPT !.handler = "dragOverHandler", !.target = v,
                                !.dataTransfer = dataTransfer]
    /\ UNCHANGED <<storeVars, dataTransfer, dragged>>

\* ProjectList.dropHandler; event.dataTransfer!.getData throws on null
dropHandler(v) ==
    /\ stack = <<>>
    /\ IF dataTransfer = null
       THEN /\ lastEvent' = [NoEvent EXCEPT !.handler = "dropHandler", !.target = v,
                                !.threw = TRUE, !.before = ValueOf(projects, heap)]
            /\ UNCHANGED <<storeVars, droppable>>
       ELSE LET prjId == dataTransfer.text
            IN /\ moveProject(prjId, statusOfTarget(v))
               /\ droppable' = classListRemove(droppable, v)
               /\ lastEvent' = [NoEvent EXCEPT !.handler = "dropHandler", !.target = v,
                                   !.prjId = prjId, !.newStatus = statusOfTarget(v),
                                   !.dataTransfer = dataTransfer,
                                   !.before = ValueOf(projects, heap)]
    /\ UNCHANGED <<dataTransfer, dragged>>

\* ProjectList.dragLeaveHandler
dragLeaveHandler(v) ==
    /\ stack = <<>>
    /\ droppable' = classListRemove(droppable, v)
    /\ lastEvent' = [NoEvent EXCEPT !.handler = "dragLeaveHandler", !.target = v,
                        !.dataTransfer = dataTransfer]
    /\ UNCHANGED <<storeVars, dataTransfer, dragged>>

\* ---- specification -------------------------------------------------------
Next ==
    \/ getInstance
    \/ \E r \in Recorders : addListener(r)
    \/ \E id \in RandomStrings, t \in Titles, d \in Descriptions, n \in PeopleCounts :
           addProject(id, t, d, n)
    \/ \E op \in ArrayOps : callListener(op)
    \/ \E v \in Views : \E k \in 1 .. MaxProjects + 1 : dragStartHandler(v, k)
    \/ \E dt \in ForeignTransfers : foreignDragStart(dt)
    \/ dragEndHandler
    \/ \E v \in Views : dragOverHandler(v)
    \/ \E v \in Views : dropHandler(v)
    \/ \E v \in Views : dragLeaveHandler(v)

Spec == Init /\ [][Next]_vars

\* the store with listeners that call it from their callback; its callers
\* are addProject and the drops of dragged items
NextR ==
    \/ \E r \in Recorders : addListener(r)
    \/ \E id \in RandomStrings, t \in Titles, d \in Descriptions, n \in PeopleCounts :
           addProject(id, t, d, n)
    \/ \E op \in ArrayOps : callListener(op)
    \/ \E op \in ArrayOps, call \in ReentrantCalls : callListenerReentrant(op, call)
    \/ \E v \in Views : \E k \in 1 .. MaxProjects + 1 : dragStartHandler(v, k)
    \/ dragEndHandler
    \/ \E v \in Views : dropHandler(v)

SpecR == Init /\ [][NextR]_vars

\* ---- properties ----------------------------------------------------------
idle == stack = <<>>

\* the references of an array, as a set
Refs(arr) == {arr[k] : k \in 1 .. Len(arr)}

\* C1: every two distinct projects held by the store have different ids.
C1_UniqueIds ==
    \A j, k \in 1 .. Len(projects) :
        j # k => heap[projects[j]].id # heap[projects[k]].id

\* the value of the store's collection now
current == ValueOf(projects, heap)

\* the latest handler called addProject or moveProject, and the call is over
storeCallReturned ==
    /\ idle
    /\ \/ lastEvent.handler = "addProject"
       \/ lastEvent.handler = "dropHandler" /\ lastEvent.dataTransfer # null

\* C2: after a store call that changed the collection (an addProject, a
\* moveProject that changed a status) has returned, every registered
\* observer has been called exactly once during the call and was passed the
\* collection as it is after the change; after addProject the last element
\* passed is the new project, with the supplied fields and status Active.
C2_NotifiedOnceWithCurrent ==
    (storeCallReturned /\ current # lastEvent.before) =>
        \A i \in 1 .. Len(listeners) :
            /\ invoked[listeners[i]] = 1
            /\ received[listeners[i]] = current
            /\ lastEvent.handler = "addProject" =>
                  LET snap == received[listeners[i]]
                      new == snap[Len(snap)]
                  IN /\ Len(snap) = Len(lastEvent.before) + 1
                     /\ new.title = lastEvent.title
                     /\ new.description = lastEvent.description
                     /\ new.people = lastEvent.people
                     /\ new.status = Active

C2_Witness ==
    /\ storeCallReturned
    /\ lastEvent.handler = "dropHandler"
    /\ current # lastEvent.before
    /\ Len(listeners) = 3
    /\ \A i \in 1 .. Len(listeners) : invoked[listeners[i]] = 1

\* the first project of `before` whose id is prjId has status st
firstMatchHasStatus(before, prjId, st) ==
    \E k \in 1 .. Len(before) :
        /\ before[k].id = prjId
        /\ before[k].status = st
        /\ \A j \in 1 .. k - 1 : before[j].id # prjId

noneInvoked == order = <<>> /\ \A o \in Observers : invoked[o] = 0

\* C3: moveProject(id, s) on a project that already has status s is a no-op:
\* no observer is called and the collection (membership, order, every
\* status) is as before the call.
C3_MoveSameStatusNoOp ==
    (/\ lastEvent.handler = "dropHandler"
     /\ lastEvent.dataTransfer # null
     /\ firstMatchHasStatus(lastEvent.before, lastEvent.prjId, lastEvent.newStatus)) =>
        /\ idle
        /\ noneInvoked
        /\ current = lastEvent.before

C3_Witness ==
    /\ lastEvent.handler = "dropHandler"
    /\ lastEvent.target = "finished"
    /\ firstMatchHasStatus(lastEvent.before, lastEvent.prjId, Finished)
    /\ Len(projects) = 2
    /\ idle

\* C4: moveProject with an id no project has raises no error, adds no
\* project, changes no status and calls no observer.
C4_MoveUnknownIdNoOp ==
    (/\ lastEvent.handler = "dropHandler"
     /\ lastEvent.dataTransfer # null
     /\ \A k \in 1 .. Len(lastEvent.before) : lastEvent.before[k].id # lastEvent.prjId) =>
        /\ ~lastEvent.threw
        /\ idle
        /\ noneInvoked
        /\ current = lastEvent.before

C4_Witness ==
    /\ lastEvent.handler = "dropHandler"
    /\ lastEvent.prjId = "nonexistent-id"
    /\ ~lastEvent.threw
    /\ Len(projects) = 2
    /\ Len(listeners) = 3
    /\ idle

\* the references of a passed snapshot, in order
RefsOf(snap) == [k \in 1 .. Len(snap) |-> snap[k].ref]

\* the references 1..n in creation order
InsertionOrder(n) == [k \in 1 .. n |-> k]

\* C5: whatever an observer does to the array it was passed (append, remove,
\* reorder), the store's collection is untouched: it holds every project
\* ever added, in insertion order, and so does every snapshot passed later.
C5_SnapshotIsolation ==
    /\ projects = InsertionOrder(Len(heap))
    /\ \A o \in Observers : RefsOf(received[o]) = InsertionOrder(Len(received[o]))

\* a recorder holds an array it has changed, and the notification running
\* now has passed the whole collection to the active view
C5_Witness ==
    /\ stack = <<3>>
    /\ snapshot[1] = 1
    /\ Len(received[RecorderListener(1)]) >= 1
    /\ arrays[1] # RefsOf(received[RecorderListener(1)])
    /\ Len(projects) = 2
    /\ received[ViewListener("active")] = current

\* C6: a snapshot passed to an observer is an independent copy: a later
\* moveProject does not change the status a project has in a snapshot passed
\* earlier (read through the references the snapshot holds).
C6_SnapshotKeepsStatus ==
    \A o \in Observers :
        \A k \in 1 .. Len(received[o]) :
            heap[received[o][k].ref].status = received[o][k].status

\* C7: a drag started on the item of an Active project A, followed by a drop
\* on the Finished target, leaves A out of the active view and in the
\* finished view, with as many projects in the store as before.
C7_DragToFinished ==
    (/\ idle
     /\ lastEvent.handler = "dropHandler"
     /\ lastEvent.target = "finished"
     /\ lastEvent.dataTransfer # null
     /\ dragged # 0
     /\ \E k \in 1 .. Len(lastEvent.before) :
            lastEvent.before[k].ref = dragged /\ lastEvent.before[k].status = Active) =>
        /\ dragged \notin Refs(assignedProjects["active"])
        /\ dragged \in Refs(assignedProjects["finished"])
        /\ Len(projects) = Len(lastEvent.before)

\* the first kind a transfer advertises is not plain text, or there is no
\* transfer at all
notPlainTextFirst(dt) ==
    \/ dt = null
    \/ dt.types = <<>>
    \/ Head(dt.types) # textPlain

\* C8: a drag-over whose transfer does not advertise plain text as its first
\* kind (or that has no transfer) does not turn the droppable class on, does
\* not call preventDefault and leaves the store as it is.
C8_DragOverRejectsOtherKinds ==
    [][(/\ idle
        /\ lastEvent'.handler = "dragOverHandler"
        /\ notPlainTextFirst(lastEvent'.dataTransfer)) =>
            /\ droppable' = droppable
            /\ ~lastEvent'.defaultPrevented
            /\ UNCHANGED <<heap, arrays, listeners, assignedProjects, stack>>]_vars

C8_Witness ==
    /\ lastEvent.handler = "dragOverHandler"
    /\ lastEvent.dataTransfer.types = <<"text/html", textPlain>>
    /\ ~lastEvent.defaultPrevented
    /\ ~droppable[lastEvent.target]
    /\ Len(projects) = 2

\* C9: every project has status Active or Finished, and once a store call
\* has returned every project of the store is in exactly one of the two
\* views' assignedProjects.
C9_ExactlyOneBucket ==
    /\ \A r \in 1 .. Len(heap) : heap[r].status \in ProjectStatus
    /\ idle =>
          \A k \in 1 .. Len(projects) :
              (projects[k] \in Refs(assignedProjects["active"]))
                  # (projects[k] \in Refs(assignedProjects["finished"]))

C9_Witness ==
    /\ idle
    /\ lastEvent.handler = "dropHandler"
    /\ current # lastEvent.before
    /\ assignedProjects["active"] # <<>>
    /\ assignedProjects["finished"] # <<>>

\* C10: during a notification the observers are called in the order of
\* their registration: the calls made so far are the first registered ones,
\* in that order.
C10_RegistrationOrder ==
    /\ Len(order) <= Len(listeners)
    /\ order = SubSeq(listeners, 1, Len(order))

C10_Witness ==
    /\ idle
    /\ Len(listeners) = 3
    /\ order = listeners

\* C11: the collection keeps insertion order: a step never moves or removes
\* a project already stored, and what it adds is the project just created,
\* at the end; so the projects are always in the order they were added.
C11_InsertionOrderKept ==
    [][/\ Len(projects') >= Len(projects)
       /\ SubSeq(projects', 1, Len(projects)) = projects
       /\ \A k \in Len(projects) + 1 .. Len(projects') :
              projects'[k] = Len(heap) + (k - Len(projects))
       /\ \A j, k \in 1 .. Len(projects') : j < k => projects'[j] < projects'[k]]_vars

\* a drop on the list the second project is already in, after the first
\* project has changed lists
C11_Witness ==
    /\ idle
    /\ lastEvent.handler = "dropHandler"
    /\ lastEvent.dataTransfer # null
    /\ dragged = 2
    /\ heap[2].status = lastEvent.newStatus
    /\ current = lastEvent.before
    /\ heap[1].status = Finished
    /\ projects = <<1, 2>>

\* C12: after a drop that reached moveProject (status changed, same status,
\* or unknown id) the target's droppable class is off; after a drag-leave
\* the target's droppable class is off and the store is as before.
C12_AffordanceCleared ==
    [][/\ (idle /\ lastEvent'.handler = "dropHandler" /\ lastEvent'.dataTransfer # null) =>
              ~droppable'[lastEvent'.target]
       /\ (idle /\ lastEvent'.handler = "dragLeaveHandler") =>
              /\ ~droppable'[lastEvent'.target]
              /\ UNCHANGED <<heap, arrays, listeners, assignedProjects, stack, received>>]_vars

\* a drop of an unknown id on a target, and the other target still shows
\* the class
C12_Witness ==
    /\ lastEvent.handler = "dropHandler"
    /\ lastEvent.prjId = "nonexistent-id"
    /\ lastEvent.target = "finished"
    /\ ~droppable["finished"]
    /\ droppable["active"]
    /\ current = lastEvent.before
    /\ Len(projects) >= 1

\* C13: dragStart, dragEnd, dragOver and dragLeave leave the collection and
\* every status as they are and call no observer; only a drop changes the
\* store.
C13_OnlyDropMutates ==
    [][(/\ idle
        /\ lastEvent'.handler \in {"dragStartHandler", "dragEndHandler",
                                   "dragOverHandler", "dragLeaveHandler"}) =>
            /\ UNCHANGED <<heap, arrays, listeners, assignedProjects, snapshot>>
            /\ UNCHANGED <<stack, invoked, order, received>>]_vars

\* a drag of an Active project's item has ended without a drop having moved
\* it, after the target had shown the droppable class
C13_Witness ==
    /\ lastEvent.handler = "dragEndHandler"
    /\ lastEvent.dataTransfer.effectAllowed = "move"
    /\ droppable["finished"]
    /\ Len(projects) = 2
    /\ \A k \in 1 .. Len(projects) : heap[projects[k]].status = Active
    /\ assignedProjects["finished"] = <<>>

\* C14: after dragStart on the item of project p the transfer holds p's id
\* as its only, plain-text, data and allows 'move'; a drop during that drag
\* passes that id to moveProject, with the status of the target's type.
C14_PayloadIsProjectId ==
    /\ dragged # 0 =>
          /\ dataTransfer.types = <<textPlain>>
          /\ dataTransfer.text = heap[dragged].id
          /\ dataTransfer.effectAllowed = "move"
    /\ (lastEvent.handler = "dropHandler" /\ dragged # 0) =>
          /\ lastEvent.prjId = heap[dragged].id
          /\ lastEvent.newStatus = (IF lastEvent.target = "active" THEN Active ELSE Finished)

\* the item of a Finished project was dropped on the active list
C14_Witness ==
    /\ idle
    /\ lastEvent.handler = "dropHandler"
    /\ lastEvent.target = "active"
    /\ dragged # 0
    /\ lastEvent.prjId = heap[dragged].id
    /\ current # lastEvent.before
    /\ dragged \in Refs(assignedProjects["active"])

\* C15: there is one store instance: ProjectState.instance stays the object
\* made at start-up (the one projectState names), and every getInstance call
\* returns it.
C15_SingleInstance ==
    /\ instance = projectState
    /\ lastEvent.handler = "getInstance" => lastEvent.returned = projectState

\* getInstance was called again after the store had been used
C15_Witness ==
    /\ lastEvent.handler = "getInstance"
    /\ lastEvent.returned = instance
    /\ Len(projects) = 2
    /\ Len(listeners) = 3

\* the observer called by this step, if the step is a listener call
calledNow(o) == Len(order') = Len(order) + 1 /\ order'[Len(order')] = o

C17_AddAppendsOne ==
    lastEvent.handler = "addProject" =>
        /\ Len(current) = Len(lastEvent.before) + 1
        /\ SubSeq(current, 1, Len(lastEvent.before)) = lastEvent.before
        /\ LET new == current[Len(current)]
           IN /\ new.title = lastEvent.title
              /\ new.description = lastEvent.description
              /\ new.people = lastEvent.people
              /\ new.status = Active
              /\ new.ref \notin {lastEvent.before[k].ref : k \in 1 .. Len(lastEvent.before)}

\* a second project was added after the first had been moved to Finished
C17_Witness ==
    /\ idle
    /\ lastEvent.handler = "addProject"
    /\ Len(lastEvent.before) = 1
    /\ lastEvent.before[1].status = Finished
    /\ current[1] = lastEvent.before[1]
    /\ current[2].status = Active

\* the first project of the collection `c` whose id is prjId, as an index;
\* 0 if there is none
firstMatch(c, prjId) ==
    IF \E k \in 1 .. Len(c) : c[k].id = prjId
    THEN CHOOSE k \in 1 .. Len(c) :
             c[k].id = prjId /\ \A j \in 1 .. k - 1 : c[j].id # prjId
    ELSE 0

\* C18: moveProject(id, s) on a project whose status is not s sets that
\* project's status to s and changes nothing else (no project added or
\* removed, no other field, no other project's status); no step ever makes
\* the collection shorter.
C18_MoveChangesOnlyStatus ==
    [][/\ Len(projects') >= Len(projects)
       /\ (/\ idle
           /\ lastEvent'.handler = "dropHandler"
           /\ lastEvent'.dataTransfer # null
           /\ firstMatch(current, lastEvent'.prjId) # 0
           /\ current[firstMatch(current, lastEvent'.prjId)].status # lastEvent'.newStatus) =>
              ValueOf(projects', heap') =
                  [current EXCEPT ![firstMatch(current, lastEvent'.prjId)].status =
                                      lastEvent'.newStatus]]_vars

\* the second project went to Finished and has come back to Active while
\* the first one stayed Finished
C18_Witness ==
    /\ idle
    /\ lastEvent.handler = "dropHandler"
    /\ lastEvent.target = "active"
    /\ Len(projects) = 2
    /\ dragged = 2
    /\ lastEvent.before[2].status = Finished
    /\ heap[2].status = Active
    /\ heap[1].status = Finished

\* the store call whose loop is running changed the collection
changingCallRunning ==
    /\ ~idle
    /\ \/ lastEvent.handler = "addProject"
       \/ lastEvent.handler = "dropHandler" /\ current # lastEvent.before

\* C19: addListener calls nobody: it starts no loop and passes no snapshot;
\* an observer is passed a snapshot only in the loop of an addProject or of
\* a moveProject that changed a status, and a view's assignedProjects
\* changes only in a call of that view's listener.
C19_RegistrationDoesNotNotify ==
    [][/\ (idle /\ lastEvent'.handler = "addListener") =>
              /\ stack' = <<>>
              /\ UNCHANGED <<received, snapshot, invoked, order, assignedProjects>>
       /\ \A o \in Observers :
              (received'[o] # received[o] \/ calledNow(o)) => changingCallRunning
       /\ \A v \in Views :
              assignedProjects'[v] # assignedProjects[v] => calledNow(ViewListener(v))]_vars

\* a listener registered after two projects were added has been passed
\* nothing, while the views hold the collection
C19_Witness ==
    /\ lastEvent.handler = "addListener"
    /\ Len(projects) = 2
    /\ listeners[3] = RecorderListener(1)
    /\ received[RecorderListener(1)] = <<>>
    /\ snapshot[1] = -1
    /\ received[ViewListener("active")] = current

\* C20: a drop that follows a dragStart on a rendered item finds the item's
\* own project in moveProject (projects are never removed), so it never
\* takes the unknown-id branch.
C20_DropFindsDraggedProject ==
    (lastEvent.handler = "dropHandler" /\ dragged # 0) =>
        /\ firstMatch(lastEvent.before, lastEvent.prjId) # 0
        /\ lastEvent.before[firstMatch(lastEvent.before, lastEvent.prjId)].ref = dragged

=============================================================================
